---- MODULE Spec2Model ----
(***************************************************************************)
(* A model of cosmic-applet-launch-control: the udev hotplug listener with *)
(* its debounce ledger (src/src/device_listener.rs) and the Launch EC      *)
(* session with its LedMode codec (src/src/core/launch.rs).                *)
(*                                                                         *)
(* Time is in milliseconds.  Text (udev property values, ledger keys) is a *)
(* sequence of one-character strings; EC string fields are sequences of    *)
(* byte values.                                                            *)
(***************************************************************************)
EXTENDS Integers, Sequences, FiniteSets, TLC

VARIABLES
    \* DeviceListener::run
    pc,          \* position of run: "start", "cold", "subscribe", "live", "done"
    debounce,    \* self.debounce
    last_event,  \* the HashMap<String, Instant> of run
    clock,       \* the value Instant::now() returns
    devs,        \* the devices of scan_devices() not yet visited
    out,         \* the Messages sent into the channel
    \* history of the listener (not program state)
    calls,       \* every should_fire call: [key, at, fired]
    prevLast,    \* last_event as it was before the most recent should_fire call
    trace,       \* every device or event run has handled, and its setup steps
    \* Launch
    hid,         \* api.device_list()
    session,     \* the Launch value a successful try_new returned
    result,      \* what the most recent try_new / set_led_mode / accessor returned
    devMode,     \* the mode byte the device holds
    wire,        \* the EC round-trips the most recent operation issued, in order
    io,          \* what the environment answered during the most recent operation
                 \* (of the texts, those a read was answered with)
    \* LedMode conversions applied on their own
    codec

vars == <<pc, debounce, last_event, clock, devs, out, calls, prevLast, trace,
          hid, session, result, devMode, wire, io, codec>>

listenerVars == <<pc, debounce, last_event, clock, devs, out, calls, prevLast, trace>>
launchVars == <<hid, session, result, devMode, wire, io>>

-----------------------------------------------------------------------------
(* Bounds of the model *)

MaxTime == 400
MaxCalls == 4
MaxEvents == 2
MaxDevs == 1
MaxHid == 2
DataSize == 4

\* The amounts by which the clock is seen to advance between two readings.
TickSteps == {100, 200}

\* Windows should_fire is exercised with when it is driven on its own.
Windows == {200, 300}

-----------------------------------------------------------------------------
(* Text helpers: hex parsing and formatting *)

Min(a, b) == IF a < b THEN a ELSE b

LowerHex == <<"0","1","2","3","4","5","6","7","8","9","a","b","c","d","e","f">>
UpperHex == <<"0","1","2","3","4","5","6","7","8","9","A","B","C","D","E","F">>

IsHexDigit(c) == \E i \in 1..16 : LowerHex[i] = c \/ UpperHex[i] = c

\* char::to_digit(16)
HexVal(c) == (CHOOSE i \in 1..16 : LowerHex[i] = c \/ UpperHex[i] = c) - 1

\* A u32 holds at most 8 significant hex digits.
U32HexDigits == 8

RECURSIVE StripZeros(_)
StripZeros(s) == IF s # <<>> /\ Head(s) = "0" THEN StripZeros(Tail(s)) ELSE s

RECURSIVE HexDigitsValue(_, _)
HexDigitsValue(s, acc) ==
    IF s = <<>> THEN acc ELSE HexDigitsValue(Tail(s), acc * 16 + HexVal(Head(s)))

\* u32::from_str_radix(s, 16).ok(): [ok, val]; an optional "+", then hex digits
\* of either case, failing on an empty text, a non-digit or overflow
ParseHexU32(s) ==
    LET digits == IF s # <<>> /\ Head(s) = "+" THEN Tail(s) ELSE s IN
    IF digits = <<>> \/ \E i \in 1..Len(digits) : ~IsHexDigit(digits[i])
    THEN [ok |-> FALSE, val |-> 0]
    ELSE IF Len(StripZeros(digits)) > U32HexDigits
    THEN [ok |-> FALSE, val |-> 0]
    ELSE [ok |-> TRUE, val |-> HexDigitsValue(StripZeros(digits), 0)]

RECURSIVE ToLowerHex(_)
ToLowerHex(n) ==
    IF n < 16 THEN <<LowerHex[n + 1]>>
    ELSE ToLowerHex(n \div 16) \o <<LowerHex[(n % 16) + 1]>>

RECURSIVE ZeroPad4(_)
ZeroPad4(s) == IF Len(s) >= 4 THEN s ELSE ZeroPad4(<<"0">> \o s)

\* format!("{:04x}", n)
Format04x(n) == ZeroPad4(ToLowerHex(n))

\* format!("{:04x}:{:04x}", info.vid, info.pid)
LedgerKey(info) == Format04x(info.vid) \o <<":">> \o Format04x(info.pid)

-----------------------------------------------------------------------------
(* udev devices: a property bag is a function from property names to text *)

V3384 == <<"3","3","8","4">>
V1234 == <<"1","2","3","4">>
P0001 == <<"0","0","0","1">>
P000A == <<"0","0","0","A">>
PBad  == <<"z","z">>

Bag(v, p) == [k \in {"ID_VENDOR_ID", "ID_MODEL_ID"} |-> IF k = "ID_VENDOR_ID" THEN v ELSE p]
BagVendorOnly(v) == [k \in {"ID_VENDOR_ID"} |-> v]
BagModelOnly(p) == [k \in {"ID_MODEL_ID"} |-> p]

\* The devices the udev source presents in this model.
Bags == { Bag(V3384, P000A), Bag(V1234, P0001), BagVendorOnly(V3384) }

EventTypes == {"add", "remove", "change"}

NoInfo == [ok |-> FALSE, vid |-> 0, pid |-> 0]

extract_info_defaults(dev) ==
    LET vid == IF "ID_VENDOR_ID" \in DOMAIN dev
               THEN ParseHexU32(dev["ID_VENDOR_ID"]) ELSE [ok |-> TRUE, val |-> 0]
        pid == IF "ID_MODEL_ID" \in DOMAIN dev
               THEN ParseHexU32(dev["ID_MODEL_ID"]) ELSE [ok |-> TRUE, val |-> 0] IN
    IF vid.ok /\ pid.ok THEN [ok |-> TRUE, vid |-> vid.val, pid |-> pid.val]
    ELSE NoInfo

\* extract_info: None unless both properties are present and parse as hex
extract_info(dev) ==
    IF "ID_VENDOR_ID" \notin DOMAIN dev THEN NoInfo
    ELSE IF "ID_MODEL_ID" \notin DOMAIN dev THEN NoInfo
    ELSE LET vid == ParseHexU32(dev["ID_VENDOR_ID"])
             pid == ParseHexU32(dev["ID_MODEL_ID"]) IN
         IF ~vid.ok THEN NoInfo
         ELSE IF ~pid.ok THEN NoInfo
         ELSE [ok |-> TRUE, vid |-> vid.val, pid |-> pid.val]

-----------------------------------------------------------------------------
(* The debounce ledger *)

\* HashMap::insert
MapInsert(m, k, v) == [x \in DOMAIN m \cup {k} |-> IF x = k THEN v ELSE m[x]]

EmptyMap == [x \in {} |-> 0]

\* Mutants of should_fire
should_fire_resets(last, info, win, now) ==
    LET key == LedgerKey(info) IN
    IF key \in DOMAIN last /\ now - last[key] < win
    THEN [fired |-> FALSE, last |-> MapInsert(last, key, now)]
    ELSE [fired |-> TRUE, last |-> MapInsert(last, key, now)]

should_fire_strict(last, info, win, now) ==
    LET key == LedgerKey(info) IN
    IF key \in DOMAIN last /\ now - last[key] <= win
    THEN [fired |-> FALSE, last |-> last]
    ELSE [fired |-> TRUE, last |-> MapInsert(last, key, now)]

\* should_fire(last, info, win) with now = Instant::now(): the returned bool
\* and the map as the call leaves it
should_fire(last, info, win, now) ==
    LET key == LedgerKey(info) IN
    IF key \in DOMAIN last /\ now - last[key] < win
    THEN [fired |-> FALSE, last |-> last]
    ELSE [fired |-> TRUE, last |-> MapInsert(last, key, now)]

\* One should_fire call on the listener's ledger, with its history.
FireStep(info, r) ==
    /\ last_event' = r.last
    /\ prevLast' = last_event
    /\ calls' = Append(calls, [key |-> LedgerKey(info), at |-> clock, fired |-> r.fired])

LiveCount == Cardinality({i \in 1..Len(trace) : trace[i].phase = "live"})

\* Time passes: a later Instant::now() reads a later instant.  The clock is
\* read by should_fire alone, so time passes where a reading can follow.
Tick ==
    /\ pc \in {"cold", "live", "ledger"}
    /\ pc = "live" => LiveCount < MaxEvents
    /\ \E d \in TickSteps :
          /\ clock + d <= MaxTime
          /\ clock' = clock + d
    /\ UNCHANGED <<pc, debounce, last_event, devs, out, calls, prevLast, trace>>
    /\ UNCHANGED launchVars
    /\ UNCHANGED codec

-----------------------------------------------------------------------------
(* DeviceListener::run *)

\* DeviceListener::new: debounce = Duration::from_millis(300)
DebounceMs == 300

DeviceConnected(info) == [type |-> "DeviceConnected", vid |-> info.vid, pid |-> info.pid]
DeviceDisconnected == [type |-> "DeviceDisconnected"]

\* The devices scan_devices() may list.
ColdBags == { Bag(V3384, P000A), Bag(V3384, PBad), BagModelOnly(P0001) }

DevLists == UNION { [1..n -> ColdBags] : n \in 0..MaxDevs }

\* The entry of the history for one handled device or event.
Handled(phase, ty, dev, info, fired, sent) ==
    [phase |-> phase, type |-> ty, dev |-> dev, info |-> info,
     fired |-> fired, sent |-> sent]

\* The entry of the history for a step of run that handles no device: the
\* enumeration failing, the monitor being set up or failing to be.
Setup(step) == Handled("setup", step, <<>>, NoInfo, FALSE, <<>>)

LiveMessages_duplicates(ty, info) ==
    IF ty = "add" THEN <<DeviceConnected(info), DeviceConnected(info)>>
    ELSE IF ty = "remove" THEN <<DeviceDisconnected>>
    ELSE <<>>

\* The messages run sends for a live event that passed the debounce.
LiveMessages(ty, info) ==
    IF ty = "add" THEN <<DeviceConnected(info)>>
    ELSE IF ty = "remove" THEN <<DeviceDisconnected>>
    ELSE <<>>

\* Enumerator::new, match_subsystem and scan_devices all succeed.
EnumerateOk ==
    /\ pc = "start"
    /\ \E list \in DevLists :
          /\ devs' = list
          /\ pc' = IF list = <<>> THEN "subscribe" ELSE "cold"
    /\ UNCHANGED <<debounce, last_event, clock, out, calls, prevLast, trace>>
    /\ UNCHANGED launchVars
    /\ UNCHANGED codec

EnumerateFail_fatal ==
    /\ pc = "start"
    /\ pc' = "done"
    /\ trace' = Append(trace, Setup("enumerate_failed"))
    /\ UNCHANGED <<debounce, last_event, clock, devs, out, calls, prevLast>>
    /\ UNCHANGED launchVars
    /\ UNCHANGED codec

\* One of Enumerator::new, match_subsystem, scan_devices fails: the block is skipped.
EnumerateFail ==
    /\ pc = "start"
    /\ pc' = "subscribe"
    /\ trace' = Append(trace, Setup("enumerate_failed"))
    /\ UNCHANGED <<debounce, last_event, clock, devs, out, calls, prevLast>>
    /\ UNCHANGED launchVars
    /\ UNCHANGED codec

\* One iteration of `for dev in devs`.
ColdDevice ==
    /\ pc = "cold"
    /\ devs # <<>>
    /\ LET dev == Head(devs)
           info == extract_info(dev)
       IN  IF info.ok
           THEN \E r \in {should_fire(last_event, info, debounce, clock)} :
                /\ FireStep(info, r)
                /\ out' = IF r.fired THEN Append(out, DeviceConnected(info)) ELSE out
                /\ trace' = Append(trace, Handled("cold", "enumerated", dev, info, r.fired,
                                IF r.fired THEN <<DeviceConnected(info)>> ELSE <<>>))
           ELSE /\ UNCHANGED <<last_event, out, calls, prevLast>>
                /\ trace' = Append(trace, Handled("cold", "enumerated", dev, info, FALSE, <<>>))
    /\ devs' = Tail(devs)
    /\ pc' = IF Tail(devs) = <<>> THEN "subscribe" ELSE "cold"
    /\ UNCHANGED <<debounce, clock>>
    /\ UNCHANGED launchVars
    /\ UNCHANGED codec

\* MonitorBuilder::new ... listen() succeeds.
SubscribeOk ==
    /\ pc = "subscribe"
    /\ pc' = "live"
    /\ trace' = Append(trace, Setup("listening"))
    /\ UNCHANGED <<debounce, last_event, clock, devs, out, calls, prevLast>>
    /\ UNCHANGED launchVars
    /\ UNCHANGED codec

SubscribeFail_retries ==
    /\ pc = "subscribe"
    /\ pc' = "subscribe"
    /\ Len(trace) < MaxDevs + 2
    /\ trace' = Append(trace, Setup("monitor_error"))
    /\ UNCHANGED <<debounce, last_event, clock, devs, out, calls, prevLast>>
    /\ UNCHANGED launchVars
    /\ UNCHANGED codec

\* The monitor cannot be set up: eprintln! and return.
SubscribeFail ==
    /\ pc = "subscribe"
    /\ pc' = "done"
    /\ trace' = Append(trace, Setup("monitor_error"))
    /\ UNCHANGED <<debounce, last_event, clock, devs, out, calls, prevLast>>
    /\ UNCHANGED launchVars
    /\ UNCHANGED codec

LiveEvent_remove_undebounced ==
    /\ pc = "live"
    /\ LiveCount < MaxEvents
    /\ \E dev \in Bags, ty \in EventTypes :
          \E info \in {extract_info(dev)} :
          IF info.ok
          THEN \E r \in {should_fire(last_event, info, debounce, clock)} :
                   LET sent == IF r.fired \/ ty = "remove"
                               THEN LiveMessages(ty, info) ELSE <<>> IN
                   /\ FireStep(info, r)
                   /\ out' = out \o sent
                   /\ trace' = Append(trace, Handled("live", ty, dev, info, r.fired, sent))
          ELSE /\ UNCHANGED <<last_event, out, calls, prevLast>>
               /\ trace' = Append(trace, Handled("live", ty, dev, info, FALSE, <<>>))
    /\ UNCHANGED <<pc, debounce, clock, devs>>
    /\ UNCHANGED launchVars
    /\ UNCHANGED codec

\* One iteration of `while let Some(evt) = monitor.next().await`.
LiveEvent ==
    /\ pc = "live"
    /\ LiveCount < MaxEvents
    /\ \E dev \in Bags, ty \in EventTypes :
          \E info \in {extract_info(dev)} :
          IF info.ok
          THEN \E r \in {should_fire(last_event, info, debounce, clock)} :
                   LET sent == IF r.fired THEN LiveMessages(ty, info) ELSE <<>> IN
                   /\ FireStep(info, r)
                   /\ out' = out \o sent
                   /\ trace' = Append(trace, Handled("live", ty, dev, info, r.fired, sent))
          ELSE /\ UNCHANGED <<last_event, out, calls, prevLast>>
               /\ trace' = Append(trace, Handled("live", ty, dev, info, FALSE, <<>>))
    /\ UNCHANGED <<pc, debounce, clock, devs>>
    /\ UNCHANGED launchVars
    /\ UNCHANGED codec

\* monitor.next() yields None: the loop and run end.
StreamEnd ==
    /\ pc = "live"
    /\ pc' = "done"
    /\ UNCHANGED <<debounce, last_event, clock, devs, out, calls, prevLast, trace>>
    /\ UNCHANGED launchVars
    /\ UNCHANGED codec

-----------------------------------------------------------------------------
(* should_fire driven on its own, for any window *)

LedgerInfos == { [ok |-> TRUE, vid |-> 13188, pid |-> 1],
                 [ok |-> TRUE, vid |-> 13188, pid |-> 10] }

ShouldFireCall ==
    /\ pc = "ledger"
    /\ Len(calls) < MaxCalls
    /\ \E info \in LedgerInfos :
          FireStep(info, should_fire(last_event, info, debounce, clock))
    /\ UNCHANGED <<pc, debounce, clock, devs, out, trace>>
    /\ UNCHANGED launchVars
    /\ UNCHANGED codec

-----------------------------------------------------------------------------
(* LedMode and its conversions *)

\* enum LedMode, in declaration order: SolidColor = 0 and each next one more
LedModes == <<"SolidColor", "PerKey", "CycleAll", "CycleLeftRight", "CycleUpDown",
              "CycleOutIn", "CycleOutInDual", "RainbowMovingChevron", "CyclePinwheel",
              "CycleSpiral", "Raindrops", "Splash", "Multisplash", "ActiveKeys",
              "Disabled", "Last">>

LedModeSet == {LedModes[i] : i \in 1..Len(LedModes)}

Bytes == 0..255

\* `mode as u8`: the discriminant
as_u8(mode) == (CHOOSE i \in 1..Len(LedModes) : LedModes[i] = mode) - 1

ModeOk(m) == [ok |-> TRUE, mode |-> m, byte |-> 0]
UnknownLedMode(b) == [ok |-> FALSE, mode |-> "", byte |-> b]

\* Mutants of try_from
try_from_default(value) ==
    IF value \in 0..15 THEN ModeOk(LedModes[value + 1]) ELSE ModeOk("SolidColor")

try_from_swapped(value) ==
    CASE value = 13 -> ModeOk("Disabled")
      [] value = 14 -> ModeOk("ActiveKeys")
      [] value \in (0..15) \ {13, 14} -> ModeOk(LedModes[value + 1])
      [] OTHER -> UnknownLedMode(value)

\* impl TryFrom<u8> for LedMode
try_from(value) ==
    CASE value = 0 -> ModeOk("SolidColor")
      [] value = 1 -> ModeOk("PerKey")
      [] value = 2 -> ModeOk("CycleAll")
      [] value = 3 -> ModeOk("CycleLeftRight")
      [] value = 4 -> ModeOk("CycleUpDown")
      [] value = 5 -> ModeOk("CycleOutIn")
      [] value = 6 -> ModeOk("CycleOutInDual")
      [] value = 7 -> ModeOk("RainbowMovingChevron")
      [] value = 8 -> ModeOk("CyclePinwheel")
      [] value = 9 -> ModeOk("CycleSpiral")
      [] value = 10 -> ModeOk("Raindrops")
      [] value = 11 -> ModeOk("Splash")
      [] value = 12 -> ModeOk("Multisplash")
      [] value = 13 -> ModeOk("ActiveKeys")
      [] value = 14 -> ModeOk("Disabled")
      [] value = 15 -> ModeOk("Last")
      [] OTHER -> UnknownLedMode(value)

\* The conversions applied to any byte and any mode.
CodecTryFrom ==
    /\ \E b \in Bytes :
          codec' = [op |-> "try_from", byte |-> b, res |-> try_from(b), back |-> 0,
                    mode |-> ""]
    /\ UNCHANGED listenerVars
    /\ UNCHANGED launchVars

CodecAsU8 ==
    /\ \E m \in LedModeSet :
          codec' = [op |-> "as_u8", byte |-> as_u8(m), res |-> ModeOk(m), back |-> 0,
                    mode |-> m]
    /\ UNCHANGED listenerVars
    /\ UNCHANGED launchVars

\* LedMode::try_from(mode as u8)
CodecEncodeDecode ==
    /\ \E m \in LedModeSet :
          codec' = [op |-> "as_u8;try_from", byte |-> as_u8(m),
                    res |-> try_from(as_u8(m)), back |-> 0, mode |-> m]
    /\ UNCHANGED listenerVars
    /\ UNCHANGED launchVars

\* LedMode::try_from(b).map(|m| m as u8)
CodecDecodeEncode ==
    /\ \E b \in Bytes :
          LET r == try_from(b) IN
          codec' = [op |-> "try_from;as_u8", byte |-> b, res |-> r,
                    back |-> IF r.ok THEN as_u8(r.mode) ELSE 0, mode |-> ""]
    /\ UNCHANGED listenerVars
    /\ UNCHANGED launchVars

-----------------------------------------------------------------------------
(* EC string fields *)

\* The buffer after an EC command wrote its reply over it: the reply's bytes,
\* zero-filled, as many as the buffer holds.
Filled(reply, n) == [i \in 1..n |-> IF i <= Len(reply) THEN reply[i] ELSE 0]

\* Ec::board / Ec::version: the count of bytes before the first zero byte
CStrLen(data) ==
    IF \E i \in 1..Len(data) : data[i] = 0
    THEN (CHOOSE i \in 1..Len(data) : data[i] = 0 /\ \A j \in 1..(i - 1) : data[j] # 0) - 1
    ELSE Len(data)

\* Vec::truncate
Truncate(data, size) == SubSeq(data, 1, Min(size, Len(data)))

RECURSIVE IsUtf8(_)
\* String::from_utf8 succeeds (one- and two-byte sequences; the model's
\* replies hold no longer ones)
IsUtf8(b) ==
    IF b = <<>> THEN TRUE
    ELSE IF b[1] < 128 THEN IsUtf8(Tail(b))
    ELSE IF b[1] \in 194..223 /\ Len(b) >= 2 /\ b[2] \in 128..191 THEN IsUtf8(Tail(Tail(b)))
    ELSE FALSE

-----------------------------------------------------------------------------
(* Launch *)

\* The pattern of try_new: (0x3384, 0x0001..=0x000A, 1)
LaunchVendorId == 13188
LaunchProductFirst == 1
LaunchProductLast == 10
LaunchInterface == 1

HidInfo(v, p, i) == [vendor_id |-> v, product_id |-> p, interface_number |-> i]

\* The HID devices api.device_list() may hold.
HidKinds == { HidInfo(13188, 1, 1), HidInfo(13188, 10, 1), HidInfo(13188, 0, 1),
              HidInfo(13188, 11, 1), HidInfo(13188, 1, 0), HidInfo(4660, 1, 1) }

HidLists == UNION { [1..n -> HidKinds] : n \in 0..MaxHid }

\* Mutants of the match arm
MatchesLaunch_exclusive(info) ==
    /\ info.vendor_id = LaunchVendorId
    /\ info.product_id >= LaunchProductFirst
    /\ info.product_id < LaunchProductLast
    /\ info.interface_number = LaunchInterface

MatchesLaunch(info) ==
    /\ info.vendor_id = LaunchVendorId
    /\ info.product_id >= LaunchProductFirst
    /\ info.product_id <= LaunchProductLast
    /\ info.interface_number = LaunchInterface

\* The index of the first device of the list the match arm takes, 0 if none.
FirstMatch(list) ==
    IF \E i \in 1..Len(list) : MatchesLaunch(list[i])
    THEN CHOOSE i \in 1..Len(list) :
            MatchesLaunch(list[i]) /\ \A j \in 1..(i - 1) : ~MatchesLaunch(list[j])
    ELSE 0

NoSession == [open |-> FALSE, dev |-> 0, board |-> <<>>, version |-> <<>>,
              current_mode |-> ""]

Ok(op) == [op |-> op, err |-> "none", byte |-> 0]
Err(op, e) == [op |-> op, err |-> e, byte |-> 0]
ErrUnknownLedMode(op, b) == [op |-> op, err |-> "UnknownLedMode", byte |-> b]

Cmd(name, channel, mode, speed) ==
    [cmd |-> name, channel |-> channel, mode |-> mode, speed |-> speed]
CmdBoard == Cmd("board", 0, 0, 0)
CmdVersion == Cmd("version", 0, 0, 0)
CmdLedGetMode(channel) == Cmd("led_get_mode", channel, 0, 0)
CmdLedSetMode(channel, mode, speed) == Cmd("led_set_mode", channel, mode, speed)

\* The steps of try_new that can fail in the transport, in the order it takes them.
OpenSteps == <<"HidApi::new", "open_device", "AccessHid::new", "Ec::new",
               "board", "version", "led_get_mode">>

\* What the environment answers during try_new: the step that fails (or "none"),
\* and the device's board text, version text and mode byte.
OpenEnv(fail, board, version, mode) ==
    [fail |-> fail, board |-> board, version |-> version, mode |-> mode, applied |-> mode]

Boards == { <<97, 98>>, <<97, 98, 99, 100, 101>>, <<255>> }
Versions == { <<49>>, <<49, 46, 50>>, <<49, 195, 169>> }

\* The outcome of an operation: the session, the returned value, the round-trips
\* issued, and the bytes the reads handed to the decoders.
Outcome(sess, res, w, boardBytes, versionBytes) ==
    [session |-> sess, result |-> res, wire |-> w,
     boardBytes |-> boardBytes, versionBytes |-> versionBytes]

\* Mutant of try_new: a failed version read leaves the version empty
try_new_partial(list, env) ==
    LET i == FirstMatch(list)
        data0 == [k \in 1..DataSize |-> 0]
        size1 == CStrLen(Filled(env.board, Len(data0)))
        data1 == Truncate(Filled(env.board, Len(data0)), size1)
        size2 == CStrLen(Filled(env.version, Len(data1)))
        data2 == Truncate(Filled(env.version, Len(data1)), size2)
        mode == try_from(env.mode)
    IN
    IF env.fail = "HidApi::new" THEN Outcome(NoSession, Err("try_new", "Hid"), <<>>, <<>>, <<>>)
    ELSE IF i = 0 THEN Outcome(NoSession, Err("try_new", "DeviceNotFound"), <<>>, <<>>, <<>>)
    ELSE IF env.fail = "open_device" THEN Outcome(NoSession, Err("try_new", "Hid"), <<>>, <<>>, <<>>)
    ELSE IF env.fail = "AccessHid::new" THEN Outcome(NoSession, Err("try_new", "Ec"), <<>>, <<>>, <<>>)
    ELSE IF env.fail = "Ec::new" THEN Outcome(NoSession, Err("try_new", "Ec"), <<>>, <<>>, <<>>)
    ELSE IF env.fail = "board"
         THEN Outcome(NoSession, Err("try_new", "Ec"), <<CmdBoard>>, <<>>, <<>>)
    ELSE IF ~IsUtf8(data1)
         THEN Outcome(NoSession, Err("try_new", "UnicodeError"), <<CmdBoard>>, data1, <<>>)
    ELSE IF env.fail = "version"
         THEN Outcome([open |-> TRUE, dev |-> i, board |-> data1, version |-> <<>>,
                       current_mode |-> IF mode.ok THEN mode.mode ELSE "SolidColor"],
                      Ok("try_new"), <<CmdBoard, CmdVersion, CmdLedGetMode(0)>>, data1, <<>>)
    ELSE IF ~IsUtf8(data2)
         THEN Outcome(NoSession, Err("try_new", "UnicodeError"),
                      <<CmdBoard, CmdVersion>>, data1, data2)
    ELSE IF env.fail = "led_get_mode"
         THEN Outcome(NoSession, Err("try_new", "Ec"),
                      <<CmdBoard, CmdVersion, CmdLedGetMode(0)>>, data1, data2)
    ELSE IF ~mode.ok
         THEN Outcome(NoSession, ErrUnknownLedMode("try_new", mode.byte),
                      <<CmdBoard, CmdVersion, CmdLedGetMode(0)>>, data1, data2)
    ELSE Outcome([open |-> TRUE, dev |-> i, board |-> data1, version |-> data2,
                  current_mode |-> mode.mode],
                 Ok("try_new"), <<CmdBoard, CmdVersion, CmdLedGetMode(0)>>, data1, data2)

\* Mutant of try_new: when a read fails on the first matching device, the
\* enumeration goes on and the next matching device is opened
try_new_next_candidate(list, env) ==
    LET first == FirstMatch(list)
        later == {k \in 1..Len(list) : k > first /\ MatchesLaunch(list[k])}
        retry == first # 0 /\ later # {} /\ env.fail \in {"board", "version", "led_get_mode"}
        i == IF retry THEN CHOOSE k \in later : \A m \in later : k <= m ELSE first
        fail == IF retry THEN "none" ELSE env.fail
        tried == IF ~retry THEN <<>>
                 ELSE IF env.fail = "board" THEN <<CmdBoard>>
                 ELSE IF env.fail = "version" THEN <<CmdBoard, CmdVersion>>
                 ELSE <<CmdBoard, CmdVersion, CmdLedGetMode(0)>>
        data0 == [k \in 1..DataSize |-> 0]
        size1 == CStrLen(Filled(env.board, Len(data0)))
        data1 == Truncate(Filled(env.board, Len(data0)), size1)
        size2 == CStrLen(Filled(env.version, Len(data1)))
        data2 == Truncate(Filled(env.version, Len(data1)), size2)
        mode == try_from(env.mode)
    IN
    IF fail = "HidApi::new" THEN Outcome(NoSession, Err("try_new", "Hid"), <<>>, <<>>, <<>>)
    ELSE IF i = 0 THEN Outcome(NoSession, Err("try_new", "DeviceNotFound"), <<>>, <<>>, <<>>)
    ELSE IF fail = "open_device" THEN Outcome(NoSession, Err("try_new", "Hid"), <<>>, <<>>, <<>>)
    ELSE IF fail = "AccessHid::new" THEN Outcome(NoSession, Err("try_new", "Ec"), <<>>, <<>>, <<>>)
    ELSE IF fail = "Ec::new" THEN Outcome(NoSession, Err("try_new", "Ec"), <<>>, <<>>, <<>>)
    ELSE IF fail = "board"
         THEN Outcome(NoSession, Err("try_new", "Ec"), <<CmdBoard>>, <<>>, <<>>)
    ELSE IF ~IsUtf8(data1)
         THEN Outcome(NoSession, Err("try_new", "UnicodeError"),
                      tried \o <<CmdBoard>>, data1, <<>>)
    ELSE IF fail = "version"
         THEN Outcome(NoSession, Err("try_new", "Ec"), <<CmdBoard, CmdVersion>>, data1, <<>>)
    ELSE IF ~IsUtf8(data2)
         THEN Outcome(NoSession, Err("try_new", "UnicodeError"),
                      tried \o <<CmdBoard, CmdVersion>>, data1, data2)
    ELSE IF fail = "led_get_mode"
         THEN Outcome(NoSession, Err("try_new", "Ec"),
                      <<CmdBoard, CmdVersion, CmdLedGetMode(0)>>, data1, data2)
    ELSE IF ~mode.ok
         THEN Outcome(NoSession, ErrUnknownLedMode("try_new", mode.byte),
                      tried \o <<CmdBoard, CmdVersion, CmdLedGetMode(0)>>, data1, data2)
    ELSE Outcome([open |-> TRUE, dev |-> i, board |-> data1, version |-> data2,
                  current_mode |-> mode.mode],
                 Ok("try_new"), tried \o <<CmdBoard, CmdVersion, CmdLedGetMode(0)>>,
                 data1, data2)

\* Launch::try_new
try_new(list, env) ==
    LET i == FirstMatch(list)
        data0 == [k \in 1..DataSize |-> 0]
        size1 == CStrLen(Filled(env.board, Len(data0)))
        data1 == Truncate(Filled(env.board, Len(data0)), size1)
        size2 == CStrLen(Filled(env.version, Len(data1)))
        data2 == Truncate(Filled(env.version, Len(data1)), size2)
        mode == try_from(env.mode)
    IN
    IF env.fail = "HidApi::new" THEN Outcome(NoSession, Err("try_new", "Hid"), <<>>, <<>>, <<>>)
    ELSE IF i = 0 THEN Outcome(NoSession, Err("try_new", "DeviceNotFound"), <<>>, <<>>, <<>>)
    ELSE IF env.fail = "open_device" THEN Outcome(NoSession, Err("try_new", "Hid"), <<>>, <<>>, <<>>)
    ELSE IF env.fail = "AccessHid::new" THEN Outcome(NoSession, Err("try_new", "Ec"), <<>>, <<>>, <<>>)
    ELSE IF env.fail = "Ec::new" THEN Outcome(NoSession, Err("try_new", "Ec"), <<>>, <<>>, <<>>)
    ELSE IF env.fail = "board"
         THEN Outcome(NoSession, Err("try_new", "Ec"), <<CmdBoard>>, <<>>, <<>>)
    ELSE IF ~IsUtf8(data1)
         THEN Outcome(NoSession, Err("try_new", "UnicodeError"), <<CmdBoard>>, data1, <<>>)
    ELSE IF env.fail = "version"
         THEN Outcome(NoSession, Err("try_new", "Ec"), <<CmdBoard, CmdVersion>>, data1, <<>>)
    ELSE IF ~IsUtf8(data2)
         THEN Outcome(NoSession, Err("try_new", "UnicodeError"),
                      <<CmdBoard, CmdVersion>>, data1, data2)
    ELSE IF env.fail = "led_get_mode"
         THEN Outcome(NoSession, Err("try_new", "Ec"),
                      <<CmdBoard, CmdVersion, CmdLedGetMode(0)>>, data1, data2)
    ELSE IF ~mode.ok
         THEN Outcome(NoSession, ErrUnknownLedMode("try_new", mode.byte),
                      <<CmdBoard, CmdVersion, CmdLedGetMode(0)>>, data1, data2)
    ELSE Outcome([open |-> TRUE, dev |-> i, board |-> data1, version |-> data2,
                  current_mode |-> mode.mode],
                 Ok("try_new"), <<CmdBoard, CmdVersion, CmdLedGetMode(0)>>, data1, data2)

\* What the environment answers during set_led_mode: the command that fails (or
\* "none") and the mode byte the device holds once the set-mode command reached it.
SetEnv(fail, mode, applied) ==
    [fail |-> fail, board |-> <<>>, version |-> <<>>, mode |-> mode, applied |-> applied]

SetOutcome(sess, res, w, dev, readback) ==
    [session |-> sess, result |-> res, wire |-> w, devMode |-> dev, readback |-> readback]

\* Mutants of set_led_mode
set_led_mode_trusts_request(sess, dev, mode, speed, env) ==
    LET set == CmdLedSetMode(0, as_u8(mode), speed)
        get == CmdLedGetMode(0)
        raw == env.applied
    IN
    IF env.fail = "led_set_mode"
    THEN SetOutcome(sess, Err("set_led_mode", "Ec"), <<set>>, env.applied, -1)
    ELSE IF env.fail = "led_get_mode"
    THEN SetOutcome(sess, Err("set_led_mode", "Ec"), <<set, get>>, env.applied, -1)
    ELSE IF ~try_from(raw).ok
    THEN SetOutcome(sess, ErrUnknownLedMode("set_led_mode", raw), <<set, get>>, env.applied, raw)
    ELSE SetOutcome([sess EXCEPT !.current_mode = mode],
                    Ok("set_led_mode"), <<set, get>>, env.applied, raw)

set_led_mode_skips_reread(sess, dev, mode, speed, env) ==
    LET set == CmdLedSetMode(0, as_u8(mode), speed) IN
    IF env.fail = "led_set_mode"
    THEN SetOutcome(sess, Err("set_led_mode", "Ec"), <<set>>, env.applied, -1)
    ELSE SetOutcome([sess EXCEPT !.current_mode = mode],
                    Ok("set_led_mode"), <<set>>, env.applied, -1)

set_led_mode_optimistic(sess, dev, mode, speed, env) ==
    LET set == CmdLedSetMode(0, as_u8(mode), speed)
        get == CmdLedGetMode(0)
        raw == env.applied
    IN
    IF env.fail = "led_set_mode"
    THEN SetOutcome(sess, Err("set_led_mode", "Ec"), <<set>>, env.applied, -1)
    ELSE IF env.fail = "led_get_mode"
    THEN SetOutcome([sess EXCEPT !.current_mode = mode],
                    Err("set_led_mode", "Ec"), <<set, get>>, env.applied, -1)
    ELSE IF ~try_from(raw).ok
    THEN SetOutcome(sess, ErrUnknownLedMode("set_led_mode", raw), <<set, get>>, env.applied, raw)
    ELSE SetOutcome([sess EXCEPT !.current_mode = try_from(raw).mode],
                    Ok("set_led_mode"), <<set, get>>, env.applied, raw)

set_led_mode_forgets_version(sess, dev, mode, speed, env) ==
    LET set == CmdLedSetMode(0, as_u8(mode), speed)
        get == CmdLedGetMode(0)
        raw == env.applied
    IN
    IF env.fail = "led_set_mode"
    THEN SetOutcome(sess, Err("set_led_mode", "Ec"), <<set>>, env.applied, -1)
    ELSE IF env.fail = "led_get_mode"
    THEN SetOutcome([sess EXCEPT !.version = <<>>],
                    Err("set_led_mode", "Ec"), <<set, get>>, env.applied, -1)
    ELSE IF ~try_from(raw).ok
    THEN SetOutcome(sess, ErrUnknownLedMode("set_led_mode", raw), <<set, get>>, env.applied, raw)
    ELSE SetOutcome([sess EXCEPT !.current_mode = try_from(raw).mode],
                    Ok("set_led_mode"), <<set, get>>, env.applied, raw)

\* Launch::set_led_mode on a session whose device holds mode byte dev
set_led_mode(sess, dev, mode, speed, env) ==
    LET set == CmdLedSetMode(0, as_u8(mode), speed)
        get == CmdLedGetMode(0)
        raw == env.applied
    IN
    IF env.fail = "led_set_mode"
    THEN SetOutcome(sess, Err("set_led_mode", "Ec"), <<set>>, env.applied, -1)
    ELSE IF env.fail = "led_get_mode"
    THEN SetOutcome(sess, Err("set_led_mode", "Ec"), <<set, get>>, env.applied, -1)
    ELSE IF ~try_from(raw).ok
    THEN SetOutcome(sess, ErrUnknownLedMode("set_led_mode", raw), <<set, get>>, env.applied, raw)
    ELSE SetOutcome([sess EXCEPT !.current_mode = try_from(raw).mode],
                    Ok("set_led_mode"), <<set, get>>, env.applied, raw)

\* The mode bytes the device may hold, the modes and speeds callers ask for.
ModeBytes == {0, 15, 16, 255}
ReqModes == {"PerKey", "Last"}
Speeds == {128}

NoEnv == [fail |-> "none", board |-> <<>>, version |-> <<>>, mode |-> 0, applied |-> 0]

Io(op, env, boardBytes, versionBytes, req, speed, readback) ==
    [op |-> op, env |-> env, boardBytes |-> boardBytes,
     versionBytes |-> versionBytes, req |-> req, speed |-> speed, readback |-> readback]

NoIo == Io("none", NoEnv, <<>>, <<>>, "", 0, -1)

\* A caller opens a session.
TryNew ==
    /\ ~session.open
    /\ \E fail \in {"none"} \cup {OpenSteps[k] : k \in 1..Len(OpenSteps)},
          board \in Boards, version \in Versions :
          \E o \in {try_new(hid, OpenEnv(fail, board, version, devMode))} :
              /\ session' = o.session
              /\ result' = o.result
              /\ wire' = o.wire
              /\ io' = Io("try_new",
                          OpenEnv(fail,
                                  IF Len(o.wire) >= 1 /\ fail # "board" THEN board ELSE <<>>,
                                  IF Len(o.wire) >= 2 /\ fail # "version" THEN version ELSE <<>>,
                                  devMode),
                          o.boardBytes, o.versionBytes, "", 0,
                          IF Len(o.wire) = 3 /\ fail # "led_get_mode" THEN devMode ELSE -1)
    /\ UNCHANGED <<hid, devMode>>
    /\ UNCHANGED listenerVars
    /\ UNCHANGED codec

\* A caller sets the LED mode of its session.
SetLedMode ==
    /\ session.open
    /\ \E mode \in ReqModes, speed \in Speeds,
          fail \in {"none", "led_set_mode", "led_get_mode"},
          applied \in ModeBytes :
          \E o \in {set_led_mode(session, devMode, mode, speed,
                                  SetEnv(fail, devMode, applied))} :
              /\ session' = o.session
              /\ result' = o.result
              /\ wire' = o.wire
              /\ devMode' = o.devMode
              /\ io' = Io("set_led_mode", SetEnv(fail, devMode, applied),
                          <<>>, <<>>, mode, speed, o.readback)
    /\ UNCHANGED hid
    /\ UNCHANGED listenerVars
    /\ UNCHANGED codec

\* Launch::board, Launch::version, Launch::current_mode
Launch_board(sess) == sess.board
Launch_version(sess) == sess.version
Launch_current_mode(sess) == sess.current_mode

\* What an accessor hands back.
Got(op, value) == [op |-> op, err |-> "none", byte |-> 0, value |-> value]

\* A caller reads the cached board id.
BoardAccessor ==
    /\ session.open
    /\ result' = Got("board", Launch_board(session))
    /\ wire' = <<>>
    /\ io' = NoIo
    /\ UNCHANGED <<hid, session, devMode>>
    /\ UNCHANGED listenerVars
    /\ UNCHANGED codec

\* A caller reads the cached version.
VersionAccessor ==
    /\ session.open
    /\ result' = Got("version", Launch_version(session))
    /\ wire' = <<>>
    /\ io' = NoIo
    /\ UNCHANGED <<hid, session, devMode>>
    /\ UNCHANGED listenerVars
    /\ UNCHANGED codec

\* A caller reads the cached mode.
CurrentModeAccessor ==
    /\ session.open
    /\ result' = Got("current_mode", Launch_current_mode(session))
    /\ wire' = <<>>
    /\ io' = NoIo
    /\ UNCHANGED <<hid, session, devMode>>
    /\ UNCHANGED listenerVars
    /\ UNCHANGED codec

\* The owner drops its Launch: the handle is released.
DropLaunch ==
    /\ session.open
    /\ session' = NoSession
    /\ result' = Ok("drop")
    /\ wire' = <<>>
    /\ io' = NoIo
    /\ UNCHANGED <<hid, devMode>>
    /\ UNCHANGED listenerVars
    /\ UNCHANGED codec

-----------------------------------------------------------------------------
(* Specifications *)

IdleListener ==
    /\ pc = "idle"
    /\ debounce = DebounceMs
    /\ last_event = EmptyMap
    /\ clock = 0
    /\ devs = <<>>
    /\ out = <<>>
    /\ calls = <<>>
    /\ prevLast = EmptyMap
    /\ trace = <<>>

IdleLaunch ==
    /\ hid = <<>>
    /\ session = NoSession
    /\ result = Ok("none")
    /\ devMode = 0
    /\ wire = <<>>
    /\ io = NoIo

IdleCodec == codec = [op |-> "none", byte |-> 0, res |-> ModeOk("SolidColor"), back |-> 0,
                      mode |-> ""]

\* DeviceListener::new() followed by run
Init ==
    /\ pc = "start"
    /\ debounce = DebounceMs
    /\ last_event = EmptyMap
    /\ clock = 0
    /\ devs = <<>>
    /\ out = <<>>
    /\ calls = <<>>
    /\ prevLast = EmptyMap
    /\ trace = <<>>
    /\ IdleLaunch
    /\ IdleCodec

Next ==
    \/ EnumerateOk
    \/ EnumerateFail
    \/ ColdDevice
    \/ SubscribeOk
    \/ SubscribeFail
    \/ LiveEvent
    \/ StreamEnd
    \/ Tick

Spec == Init /\ [][Next]_vars

\* should_fire on an empty ledger, with any window
InitLedger ==
    /\ pc = "ledger"
    /\ debounce \in Windows
    /\ last_event = EmptyMap
    /\ clock = 0
    /\ devs = <<>>
    /\ out = <<>>
    /\ calls = <<>>
    /\ prevLast = EmptyMap
    /\ trace = <<>>
    /\ IdleLaunch
    /\ IdleCodec

NextLedger ==
    \/ ShouldFireCall
    \/ Tick

SpecLedger == InitLedger /\ [][NextLedger]_vars

\* Launch, before try_new, with any HID device list and any device mode
InitLaunch ==
    /\ IdleListener
    /\ hid \in HidLists
    /\ session = NoSession
    /\ result = Ok("none")
    /\ devMode \in ModeBytes
    /\ wire = <<>>
    /\ io = NoIo
    /\ IdleCodec

NextLaunch ==
    \/ TryNew
    \/ SetLedMode
    \/ BoardAccessor
    \/ VersionAccessor
    \/ CurrentModeAccessor
    \/ DropLaunch

SpecLaunch == InitLaunch /\ [][NextLaunch]_vars

InitCodec ==
    /\ IdleListener
    /\ IdleLaunch
    /\ IdleCodec

NextCodec ==
    \/ CodecTryFrom
    \/ CodecAsU8
    \/ CodecEncodeDecode
    \/ CodecDecodeEncode

SpecCodec == InitCodec /\ [][NextCodec]_vars

-----------------------------------------------------------------------------
(* Properties of the debounce ledger *)

Keys == {calls[i].key : i \in 1..Len(calls)}

\* The should_fire calls made for key k, in order.
KeyCalls(k) == SelectSeq(calls, LAMBDA c : c.key = k)

Accepted(s, i, j) == Cardinality({m \in i..j : s[m].fired})

\* s[i..j] is a burst with gap e that begins with an accepted notification.
IsBurst(s, i, j, e) ==
    /\ i <= j
    /\ s[i].fired
    /\ \A m \in i..j : s[m].at = s[i].at + (m - i) * e

\* C1 as stated: any burst of notifications for one key at t, t+e, t+2e, ...
\* with e < w yields exactly 1 accepted notification, and a further one at
\* t + w + e is accepted.
C1_AnyBurstAcceptsOnce ==
    \A k \in Keys :
       LET s == KeyCalls(k) IN
       \A i \in 1..Len(s), j \in 1..Len(s), e \in 0..(debounce - 1) :
          IsBurst(s, i, j, e) =>
             /\ Accepted(s, i, j) = 1
             /\ (j < Len(s) /\ s[j + 1].at = s[i].at + debounce + e) => s[j + 1].fired

\* C1 as amended: a burst for one key at t, t+e, ..., t+(N-1)e that lies inside
\* the window of its first, accepted notification ((N-1)e < w) yields exactly 1
\* accepted notification, and a further one at t + w + e is accepted.
C1_BurstInWindowAcceptsOnce ==
    \A k \in Keys :
       LET s == KeyCalls(k) IN
       \A i \in 1..Len(s), j \in 1..Len(s), e \in 0..(debounce - 1) :
          (IsBurst(s, i, j, e) /\ (j - i) * e < debounce) =>
             /\ Accepted(s, i, j) = 1
             /\ (j < Len(s) /\ s[j + 1].at = s[i].at + debounce + e) => s[j + 1].fired

\* A burst of 2 or more inside one window was collapsed to 1 accepted
\* notification and the notification at t + w + e was accepted.
C1_Witness ==
    \E k \in Keys :
       LET s == KeyCalls(k) IN
       \E i \in 1..Len(s), j \in 1..Len(s), e \in 1..(debounce - 1) :
          /\ i < j
          /\ IsBurst(s, i, j, e)
          /\ (j - i) * e < debounce
          /\ Accepted(s, i, j) = 1
          /\ j < Len(s)
          /\ s[j + 1].at = s[i].at + debounce + e
          /\ s[j + 1].fired

LastCall == calls[Len(calls)]

\* C3: a should_fire call that returns false leaves the ledger as it was, so
\* every suppressed notification is less than one window after an accepted
\* notification of its key: a burst cannot postpone the next acceptance.
C3_SuppressedLeavesLedger ==
    /\ (calls # <<>> /\ ~LastCall.fired) => last_event = prevLast
    /\ \A k \in Keys :
          LET s == KeyCalls(k) IN
          \A m \in 1..Len(s) :
             ~s[m].fired =>
                \E i \in 1..(m - 1) :
                   /\ s[i].fired
                   /\ s[m].at - s[i].at < debounce
                   /\ \A n \in (i + 1)..m : ~s[n].fired

\* A suppressed call made later than the time the ledger holds for its key.
C3_Witness ==
    /\ calls # <<>>
    /\ ~LastCall.fired
    /\ LastCall.key \in DOMAIN last_event
    /\ last_event[LastCall.key] < LastCall.at
    /\ last_event = prevLast

\* C4: should_fire returns true exactly when the ledger holds no time for the
\* key or now - lastRecorded >= window, and records now for the key exactly
\* when it returns true.
C4_FiresIffNoRecordOrWindowElapsed ==
    calls # <<>> =>
       LET c == LastCall IN
       /\ c.fired <=> (c.key \notin DOMAIN prevLast \/ c.at - prevLast[c.key] >= debounce)
       /\ c.fired =>
             /\ DOMAIN last_event = DOMAIN prevLast \cup {c.key}
             /\ last_event[c.key] = c.at
             /\ \A x \in DOMAIN prevLast \ {c.key} : last_event[x] = prevLast[x]
       /\ ~c.fired => last_event = prevLast

\* A call exactly one window after the recorded time fired and recorded now.
C4_Witness ==
    /\ calls # <<>>
    /\ LastCall.fired
    /\ LastCall.key \in DOMAIN prevLast
    /\ LastCall.at - prevLast[LastCall.key] = debounce
    /\ last_event[LastCall.key] = LastCall.at

-----------------------------------------------------------------------------
(* Properties of the hotplug listener *)

\* The filter LaunchControl::device_task configures: 0x3384, 0x0001..=0x000A
HotplugVendorId == 13188
HotplugProductFirst == 1
HotplugProductLast == 10

MatchesHotplug(info) ==
    /\ info.ok
    /\ info.vid = HotplugVendorId
    /\ info.pid >= HotplugProductFirst
    /\ info.pid <= HotplugProductLast

\* C2: every message run sends, for an enumerated device or a live event, is
\* for a device with vendor id 0x3384 and product id in 0x0001..=0x000A.
C2_EmitsOnlyForMatchingDevices ==
    \A i \in 1..Len(trace) : trace[i].sent # <<>> => MatchesHotplug(trace[i].info)

-----------------------------------------------------------------------------
(* Properties of Launch *)

\* The session-open filter as the specification states it.
InSessionFilter(info) ==
    /\ info.vendor_id = 13188
    /\ info.product_id \in 1..10
    /\ info.interface_number = 1

SomeCandidateMatches == \E i \in 1..Len(hid) : InSessionFilter(hid[i])

\* The ordinal of a mode and the mode of an ordinal, by position in the enum.
OrdinalOf(m) == CHOOSE n \in 0..15 : LedModes[n + 1] = m
ModeOfOrdinal(n) == LedModes[n + 1]

\* try_new ran on a matched device.
OpenedMatched ==
    /\ result.op = "try_new"
    /\ io.env.fail # "HidApi::new"
    /\ SomeCandidateMatches

\* The error of the first open-time step that failed, "none" if none did.
FirstOpenError ==
    IF io.env.fail = "open_device" THEN "Hid"
    ELSE IF io.env.fail \in {"AccessHid::new", "Ec::new", "board"} THEN "Ec"
    ELSE IF ~IsUtf8(io.boardBytes) THEN "UnicodeError"
    ELSE IF io.env.fail = "version" THEN "Ec"
    ELSE IF ~IsUtf8(io.versionBytes) THEN "UnicodeError"
    ELSE IF io.env.fail = "led_get_mode" THEN "Ec"
    ELSE IF io.env.mode \notin 0..15 THEN "UnknownLedMode"
    ELSE "none"

\* C5: open is all-or-nothing: when any open-time step on the matched device
\* fails (raw open, a read, or a decode) try_new returns the first such error
\* and no session; a session exists only if all three round-trips were issued
\* and all decodes succeeded.
C5_OpenAllOrNothing ==
    OpenedMatched =>
       /\ result.err = FirstOpenError
       /\ result.err # "none" => session = NoSession
       /\ result.err = "none" => session.open
       /\ session.open =>
             /\ io.env.fail = "none"
             /\ wire = <<CmdBoard, CmdVersion, CmdLedGetMode(0)>>
             /\ IsUtf8(session.board)
             /\ IsUtf8(session.version)
             /\ io.env.mode \in 0..15
             /\ session.current_mode = ModeOfOrdinal(io.env.mode)

\* The 2nd of the 3 open-time round-trips failed: no session, the EC error.
C5_Witness ==
    /\ OpenedMatched
    /\ io.env.fail = "version"
    /\ wire = <<CmdBoard, CmdVersion>>
    /\ result.err = "Ec"
    /\ session = NoSession

\* C6: after a successful set_led_mode the cached current_mode is the decode
\* of the byte the device answered to the get-mode query, also when that is
\* not the requested mode.
C6_CachedModeIsDeviceTruth ==
    (result.op = "set_led_mode" /\ result.err = "none") =>
       /\ session.open
       /\ io.env.applied \in 0..15
       /\ devMode = io.env.applied
       /\ session.current_mode = ModeOfOrdinal(io.env.applied)

\* A successful set_led_mode(X) whose read-back Y differs from X: the cache holds Y.
C6_Witness ==
    /\ result.op = "set_led_mode"
    /\ result.err = "none"
    /\ io.env.applied \in 0..15
    /\ io.env.applied # OrdinalOf(io.req)
    /\ session.current_mode = ModeOfOrdinal(io.env.applied)
    /\ session.current_mode # io.req

\* C7 as stated: every call of set_led_mode issues the set-mode command and
\* then the get-mode read; no call ends without the re-read.
C7_AlwaysRereads ==
    result.op = "set_led_mode" =>
       wire = <<CmdLedSetMode(0, OrdinalOf(io.req), io.speed), CmdLedGetMode(0)>>

\* C7 as amended: every call sends the set-mode command (channel 0, requested
\* ordinal, speed) first; the get-mode read on channel 0 follows exactly when
\* that command succeeded, and a successful call caches the decode of its answer.
C7_RereadsAfterSuccessfulSet ==
    result.op = "set_led_mode" =>
       /\ wire # <<>>
       /\ wire[1] = CmdLedSetMode(0, OrdinalOf(io.req), io.speed)
       /\ io.env.fail = "led_set_mode" => (wire = <<wire[1]>> /\ result.err = "Ec")
       /\ io.env.fail # "led_set_mode" => wire = <<wire[1], CmdLedGetMode(0)>>
       /\ result.err = "none" => session.current_mode = ModeOfOrdinal(io.env.applied)

\* A call whose set-mode command succeeded: set-mode, then get-mode, were issued.
C7_Witness ==
    /\ result.op = "set_led_mode"
    /\ io.env.fail = "none"
    /\ Len(wire) = 2
    /\ wire[1].cmd = "led_set_mode"
    /\ wire[1].mode = OrdinalOf(io.req)
    /\ wire[2] = CmdLedGetMode(0)

\* The operation's get-mode read was answered by the device.
GetModeAnswered ==
    /\ wire # <<>>
    /\ wire[Len(wire)].cmd = "led_get_mode"
    /\ io.env.fail # "led_get_mode"

\* C8: a byte outside 0..=15 never decodes: the operation fails with
\* UnknownLedMode carrying that byte, and the cached current_mode of a session
\* is always one of the 16 modes.
\* (The first conjunct is about the conversion alone: it is evaluated in the
\* states where no operation has run yet.)
C8_UnknownModeRejected ==
    /\ result.op = "none" =>
          \A b \in Bytes \ (0..15) : try_from(b) = [ok |-> FALSE, mode |-> "", byte |-> b]
    /\ session.open => \E n \in 0..15 : session.current_mode = ModeOfOrdinal(n)
    /\ (GetModeAnswered /\ io.env.applied \notin 0..15) =>
          /\ result.err = "UnknownLedMode"
          /\ result.byte = io.env.applied
    /\ result.err = "UnknownLedMode" => result.byte \notin 0..15

\* set_led_mode read back 255: UnknownLedMode(255), the cache still a mode.
C8_Witness ==
    /\ result.op = "set_led_mode"
    /\ GetModeAnswered
    /\ io.env.applied = 255
    /\ result.err = "UnknownLedMode"
    /\ result.byte = 255
    /\ session.open
    /\ session.current_mode \in LedModeSet

\* C9: decoding the encoded byte of any mode gives that mode, and encoding
\* the decode of any byte in 0..=15 gives that byte.
C9_ModeRoundTrip ==
    /\ codec.op = "as_u8;try_from" =>
          /\ codec.byte \in 0..15
          /\ codec.res.ok
          /\ codec.res.mode = codec.mode
    /\ (codec.op = "try_from;as_u8" /\ codec.byte \in 0..15) =>
          /\ codec.res.ok
          /\ codec.back = codec.byte

\* The last mode went through encode and decode and came back.
C9_Witness ==
    /\ codec.op = "as_u8;try_from"
    /\ codec.mode = "Last"
    /\ codec.byte = 15
    /\ codec.res.ok
    /\ codec.res.mode = "Last"

\* C10: once the HID devices are enumerated, try_new fails with DeviceNotFound
\* exactly when none of them has vendor id 0x3384, product id in
\* 0x0001..=0x000A and interface number 1; a session is always on a device
\* that matches.
C10_DeviceNotFoundIffNoMatch ==
    /\ (result.op = "try_new" /\ io.env.fail # "HidApi::new") =>
          (result.err = "DeviceNotFound" <=> ~SomeCandidateMatches)
    /\ result.err = "DeviceNotFound" => (result.op = "try_new" /\ wire = <<>>)
    /\ session.open =>
          /\ session.dev \in 1..Len(hid)
          /\ InSessionFilter(hid[session.dev])

\* Product ids 0x0000 and 0x000B were enumerated and neither matched.
C10_Witness ==
    /\ result.op = "try_new"
    /\ hid = <<HidInfo(13188, 0, 1), HidInfo(13188, 11, 1)>>
    /\ io.env.fail = "none"
    /\ result.err = "DeviceNotFound"

-----------------------------------------------------------------------------
(* The order of the emitted events *)

\* The message an entry of the history is due: a device of the cold
\* enumeration or an added device that passed the debounce is announced as
\* connected, a removed one as disconnected.
DueMessage(e) ==
    IF e.phase = "setup" \/ ~e.fired THEN <<>>
    ELSE IF e.phase = "cold" \/ e.type = "add"
    THEN <<[type |-> "DeviceConnected", vid |-> e.info.vid, pid |-> e.info.pid]>>
    ELSE IF e.type = "remove" THEN <<[type |-> "DeviceDisconnected"]>>
    ELSE <<>>

RECURSIVE DueUpTo(_)
DueUpTo(n) == IF n = 0 THEN <<>> ELSE DueUpTo(n - 1) \o DueMessage(trace[n])

IsPrefix(s, t) == Len(s) <= Len(t) /\ SubSeq(t, 1, Len(s)) = s

ColdBeforeLive ==
    \A i, j \in 1..Len(trace) :
        (i < j /\ trace[j].phase = "cold") => trace[i].phase = "cold"

OutInHandlingOrder == out = DueUpTo(Len(trace))

ColdInListingOrder ==
    (pc = "cold" /\ trace' # trace) =>
        /\ devs # <<>>
        /\ devs' = Tail(devs)
        /\ Len(trace') = Len(trace) + 1
        /\ SubSeq(trace', 1, Len(trace)) = trace
        /\ trace'[Len(trace')].dev = Head(devs)
        /\ trace'[Len(trace')].phase = "cold"

OutOnlyGrows == IsPrefix(out, out') /\ Len(out') <= Len(out) + 1

-----------------------------------------------------------------------------
(* Notifications run does not act on *)

\* The entry a step of run has just added to the history.
Newest == trace'[Len(trace')]

HandlesOne == Len(trace') = Len(trace) + 1

\* C12: a live notification whose action is neither add nor remove is
\* ignored: handling it sends no message and leaves the ledger as it was, so
\* it cannot make a later add or remove of the same identity be suppressed.
C12_UnrecognizedActionIgnored ==
    [][(HandlesOne /\ Newest.phase = "live" /\ Newest.type \notin {"add", "remove"})
          => (out' = out /\ last_event' = last_event)]_vars

\* A property bag that gives no identity: a property is missing or its text
\* is not a hexadecimal number.
HexNumber(text) ==
    /\ text # <<>>
    /\ Len(text) <= U32HexDigits
    /\ \A i \in 1..Len(text) :
          text[i] \in {"0","1","2","3","4","5","6","7","8","9",
                       "a","b","c","d","e","f","A","B","C","D","E","F"}

Unidentifiable(dev) ==
    \/ "ID_VENDOR_ID" \notin DOMAIN dev
    \/ "ID_MODEL_ID" \notin DOMAIN dev
    \/ ~HexNumber(dev["ID_VENDOR_ID"])
    \/ ~HexNumber(dev["ID_MODEL_ID"])

Devices(n) == {i \in 1..n : trace[i].phase # "setup"}

SkippedWithoutTrace ==
    /\ \A i \in Devices(Len(trace)) :
          Unidentifiable(trace[i].dev) =>
              ~trace[i].info.ok /\ ~trace[i].fired /\ trace[i].sent = <<>>
    /\ Len(calls) =
          Cardinality({i \in Devices(Len(trace)) : ~Unidentifiable(trace[i].dev)})

SkippedAndContinues ==
    (HandlesOne /\ Newest.phase # "setup" /\ Unidentifiable(Newest.dev)) =>
        /\ out' = out
        /\ last_event' = last_event
        /\ calls' = calls
        /\ pc' # "done"
        /\ Newest.phase = "live" => pc' = "live"

\* C13: a device or notification whose property bag lacks ID_VENDOR_ID or
\* ID_MODEL_ID, or holds a text that is not hexadecimal, gives no identity:
\* handling it sends no message, makes no should_fire call, leaves the
\* ledger as it was and does not end run, which goes on to the next one.
C13_UnidentifiableSkipped ==
    /\ []SkippedWithoutTrace
    /\ [][SkippedAndContinues]_vars

\* C13: a cold device and a live notification without an identity were
\* skipped, and a later notification was handled and announced.
C13_Witness ==
    \E i, j, k \in 1..Len(trace) :
        /\ i < j /\ j < k
        /\ trace[i].phase = "cold" /\ Unidentifiable(trace[i].dev)
        /\ trace[j].phase = "live" /\ Unidentifiable(trace[j].dev)
        /\ trace[k].phase = "live" /\ trace[k].sent # <<>>
        /\ DOMAIN last_event = {LedgerKey(trace[k].info)}

-----------------------------------------------------------------------------
(* Failures of the setup steps of run *)

Steps(ty) == {i \in 1..Len(trace) : trace[i].phase = "setup" /\ trace[i].type = ty}

MonitorFailed == Steps("monitor_error") # {}

FailedMonitorIsFinal ==
    MonitorFailed =>
        /\ pc = "done"
        /\ Steps("monitor_error") = {Len(trace)}
        /\ Steps("listening") = {}
        /\ \A i \in 1..Len(trace) : trace[i].phase # "live"
        /\ Len(out) = Cardinality({i \in 1..Len(trace) :
                                      trace[i].phase = "cold" /\ trace[i].fired})

NothingAfterFailedMonitor ==
    MonitorFailed => UNCHANGED <<pc, out, trace, last_event, calls>>

\* C14: when the udev monitor cannot be set up, run returns after the cold
\* enumeration: no live notification is ever handled, the output holds only
\* the messages of the cold devices, and nothing happens afterwards (the
\* monitor is not set up a second time).
C14_SubscribeFailureEndsRun ==
    /\ []FailedMonitorIsFinal
    /\ [][NothingAfterFailedMonitor]_vars

\* C14: a cold device was announced, then the monitor could not be set up.
C14_Witness ==
    /\ MonitorFailed
    /\ Len(out) = 1
    /\ out[1].type = "DeviceConnected"

EnumerationFailed == Steps("enumerate_failed") # {}

FailedEnumerationIsEmpty ==
    EnumerationFailed =>
        /\ Steps("enumerate_failed") = {1}
        /\ devs = <<>>
        /\ \A i \in 1..Len(trace) : trace[i].phase # "cold"
        /\ pc \in {"subscribe", "live", "done"}
        /\ pc = "live" => Steps("listening") = {2}
        /\ pc = "done" => (Steps("listening") = {2} \/ Steps("monitor_error") = {2})
        /\ LiveCount = 0 => (out = <<>> /\ last_event = EmptyMap /\ calls = <<>>)

\* The step in which the enumeration fails leaves run where an empty
\* listing leaves it: about to set up the monitor, with nothing sent and
\* nothing recorded.
FailedEnumerationGoesOn ==
    (HandlesOne /\ Newest.type = "enumerate_failed") =>
        /\ pc' = "subscribe"
        /\ out' = <<>> /\ last_event' = EmptyMap /\ devs' = <<>>
        /\ UNCHANGED <<debounce, clock>>

\* C15: a failure of the cold enumeration is not fatal: it sends nothing,
\* records nothing in the ledger, and run goes on to set up the monitor and
\* to handle live notifications as after an empty listing.
C15_EnumerationFailureNonFatal ==
    /\ []FailedEnumerationIsEmpty
    /\ [][FailedEnumerationGoesOn]_vars

\* C15: the enumeration failed and a live add was then announced.
C15_Witness ==
    /\ EnumerationFailed
    /\ \E i \in 1..Len(trace) :
          trace[i].phase = "live" /\ trace[i].type = "add" /\ trace[i].fired
    /\ Len(out) = 1
    /\ out[1].type = "DeviceConnected"

-----------------------------------------------------------------------------
(* The debounce across actions *)

Identified == {i \in 1..Len(trace) : trace[i].phase # "setup" /\ trace[i].info.ok}

\* The instant at which an identified entry was handled: the instant of its
\* should_fire call.
HandledAt(i) == calls[Cardinality({m \in Identified : m <= i})].at

SameIdentity(i, j) ==
    /\ trace[i].info.vid = trace[j].info.vid
    /\ trace[i].info.pid = trace[j].info.pid

AcceptedApart ==
    \A i, j \in Identified :
        (i < j /\ SameIdentity(i, j) /\ trace[i].fired /\ trace[j].fired)
            => HandledAt(j) - HandledAt(i) >= DebounceMs

RemoveInWindowSuppressed ==
    \A i, j \in Identified :
        ( /\ i < j /\ SameIdentity(i, j)
          /\ trace[i].fired
          /\ trace[j].phase = "live" /\ trace[j].type = "remove"
          /\ HandledAt(j) - HandledAt(i) < DebounceMs )
            => (~trace[j].fired /\ trace[j].sent = <<>>)

\* C20: the debounce is keyed by the identity alone and consulted before
\* the action is looked at: two accepted entries of one identity are at
\* least the window apart whatever their actions, and a remove handled less
\* than the window after an accepted entry of its identity (a cold device,
\* an add or any other action) is suppressed and sends no
\* DeviceDisconnected; the output holds one message per entry that sent one.
C20_DebounceAcrossActions ==
    /\ AcceptedApart
    /\ RemoveInWindowSuppressed
    /\ Len(out) = Cardinality({i \in 1..Len(trace) : trace[i].sent # <<>>})

\* C20: a cold device was announced, a remove of its identity 100 ms later
\* was suppressed, and a remove a full window after the announcement was
\* accepted.
C20_Witness ==
    \E i, j, k \in Identified :
        /\ i < j /\ j < k
        /\ SameIdentity(i, j) /\ SameIdentity(i, k)
        /\ trace[i].phase = "cold" /\ trace[i].fired
        /\ trace[j].type = "remove" /\ ~trace[j].fired
        /\ HandledAt(j) - HandledAt(i) = 100
        /\ trace[k].type = "remove" /\ trace[k].fired
        /\ HandledAt(k) - HandledAt(i) = DebounceMs
        /\ Len(out) = 2

-----------------------------------------------------------------------------
(* The texts cached by open *)

\* The version text the device reports to a read with a buffer of the full
\* data size: its reply up to the first NUL.
VersionReported ==
    LET full == Filled(io.env.version, DataSize) IN SubSeq(full, 1, CStrLen(full))

\* C16: the version cached by open is the full version text the device
\* reports, whatever the length of the board id read before it.
C16_VersionIndependentOfBoard ==
    (result.op = "try_new" /\ session.open) => session.version = VersionReported

-----------------------------------------------------------------------------
(* The steps of open *)

\* The first device of the list that is in the session filter, 0 if none.
FirstInFilter ==
    IF SomeCandidateMatches
    THEN CHOOSE i \in 1..Len(hid) :
             InSessionFilter(hid[i]) /\ \A k \in 1..(i - 1) : ~InSessionFilter(hid[k])
    ELSE 0

OpenReads == <<CmdBoard, CmdVersion, CmdLedGetMode(0)>>

\* The number of reads open has issued when it returns the given outcome.
ReadsIssued ==
    IF result.err = "none" \/ result.err = "UnknownLedMode" THEN 3
    ELSE IF result.err \in {"Hid", "DeviceNotFound"} THEN 0
    ELSE IF result.err = "UnicodeError" THEN (IF IsUtf8(io.boardBytes) THEN 2 ELSE 1)
    ELSE IF io.env.fail = "board" THEN 1
    ELSE IF io.env.fail = "version" THEN 2
    ELSE IF io.env.fail = "led_get_mode" THEN 3
    ELSE 0

\* C17: open works on the first listed device that matches the filter and
\* reads the board id, the version and the LED mode in this order; when a
\* step fails the reads stop there, open returns the error and holds no
\* session, whether or not a later device matches too.
C17_OpenStepsInOrder ==
    result.op = "try_new" =>
        /\ wire = SubSeq(OpenReads, 1, ReadsIssued)
        /\ session.open => (session.dev = FirstInFilter /\ result.err = "none")
        /\ result.err # "none" => session = NoSession

\* C17: two devices match, the version read of the first failed: open
\* returned the error after two reads and holds no session.
C17_Witness ==
    /\ result.op = "try_new"
    /\ Len(hid) = 2 /\ InSessionFilter(hid[1]) /\ InSessionFilter(hid[2])
    /\ io.env.fail = "version"
    /\ result.err = "Ec"
    /\ wire = <<CmdBoard, CmdVersion>>
    /\ ~session.open

-----------------------------------------------------------------------------
(* The cached texts during a session *)

Accessors == {"board", "version", "current_mode"}

\* While one session lives, no step changes its board id or its version.
TextsKept ==
    (session.open /\ session'.open) =>
        (session'.board = session.board /\ session'.version = session.version)

\* An accessor call hands back the cached field, issues no round-trip and
\* leaves the session and the device as they were.
AccessorIsPureRead ==
    (session.open /\ result'.op \in Accessors) =>
        /\ session' = session
        /\ devMode' = devMode
        /\ wire' = <<>>
        /\ result'.value = (CASE result'.op = "board" -> session.board
                              [] result'.op = "version" -> session.version
                              [] OTHER -> session.current_mode)

\* C18: the board id and the version of a session stay what open cached,
\* through any set_led_mode calls, failing or not, and any accessor calls;
\* board(), version() and current_mode() hand back the cached value, issue
\* no round-trip and change nothing of the session.
C18_BoardAndVersionImmutable == [][TextsKept /\ AccessorIsPureRead]_vars

\* C18: a set_led_mode call on an open session failed at its read-back;
\* the session still holds a board id and a version.
C18_Witness ==
    /\ result.op = "set_led_mode"
    /\ result.err = "Ec"
    /\ Len(wire) = 2
    /\ session.open
    /\ session.board # <<>>
    /\ session.version # <<>>

-----------------------------------------------------------------------------
(* A failing set_led_mode *)

SetFailed == result.op = "set_led_mode" /\ result.err # "none"

\* set_led_mode fails exactly when a command fails or the byte read back is
\* no mode, and a failed set-mode command is the only round-trip of its call.
SetFailureCases ==
    result.op = "set_led_mode" =>
        /\ SetFailed <=> ( \/ io.env.fail \in {"led_set_mode", "led_get_mode"}
                           \/ io.env.applied \notin 0..15 )
        /\ io.env.fail = "led_set_mode" =>
               (Len(wire) = 1 /\ wire[1].cmd = "led_set_mode" /\ io.readback = -1)
        /\ (SetFailed /\ io.env.fail # "led_set_mode") =>
               (Len(wire) = 2 /\ wire[1].cmd = "led_set_mode" /\ wire[2].cmd = "led_get_mode")

\* A set_led_mode call that returns an error leaves the session as it was.
FailedSetKeepsSession ==
    (session.open /\ result'.op = "set_led_mode" /\ result'.err # "none") =>
        session' = session

\* C19: when set_led_mode returns an error (the set-mode command fails, the
\* get-mode read fails, or the byte read back is outside 0..=15) the cached
\* mode keeps its value; a failed set-mode command is followed by no
\* get-mode read.
C19_FailedSetKeepsCachedMode ==
    /\ []SetFailureCases
    /\ [][FailedSetKeepsSession]_vars

\* C19: the set-mode command succeeded and the read-back failed: the device
\* holds a mode other than the cached one.
C19_Witness ==
    /\ SetFailed
    /\ session.open
    /\ io.env.fail = "led_get_mode"
    /\ devMode \in 0..15
    /\ ModeOfOrdinal(devMode) # session.current_mode

====
